---- MODULE Spec2Model ----
(***************************************************************************)
(* A model of the DTMF fixture tooling of jrlodge/dtmf-sandbox:             *)
(*   tools/bursty_noise_overlay.py  (noise track synthesis, SNR mixing)     *)
(*   tools/evaluate_dtmf.py         (parse_metadata of the harness)         *)
(*   tools/analyse_harmonics.py     (parse_metadata of the reporter)        *)
(*                                                                          *)
(* Python floats are modelled as exact reals.  Every float the mixer        *)
(* computes before the mixing loop is a non-negative real whose square is   *)
(* rational (an RMS, 1e-6, 10^(snr/20), and quotients of those); such a     *)
(* real is kept as the pair (p, q) of its square p/q.  The pairs hold       *)
(* natural numbers of arbitrary size, kept as little-endian limb sequences, *)
(* because the squares of 16-bit samples do not fit TLC's integers.         *)
(***************************************************************************)
EXTENDS Integers, Sequences, FiniteSets, TLC

----------------------------------------------------------------------------
(* Natural numbers of arbitrary size: little-endian limbs, no leading zero  *)
(* limb, <<>> is zero.                                                      *)

BigBase == 2 ^ 15

RECURSIVE BigFromNat(_)
BigFromNat(n) ==
    IF n = 0 THEN <<>> ELSE <<n % BigBase>> \o BigFromNat(n \div BigBase)

RECURSIVE BigAddC(_, _, _)
BigAddC(a, b, carry) ==
    IF a = <<>> /\ b = <<>>
    THEN IF carry = 0 THEN <<>> ELSE <<carry>>
    ELSE LET x == IF a = <<>> THEN 0 ELSE Head(a)
             y == IF b = <<>> THEN 0 ELSE Head(b)
             s == x + y + carry
             ra == IF a = <<>> THEN <<>> ELSE Tail(a)
             rb == IF b = <<>> THEN <<>> ELSE Tail(b)
         IN  <<s % BigBase>> \o BigAddC(ra, rb, s \div BigBase)

BigAdd(a, b) == BigAddC(a, b, 0)

RECURSIVE BigMulSmallC(_, _, _)
BigMulSmallC(a, k, carry) ==
    IF a = <<>>
    THEN BigFromNat(carry)
    ELSE LET s == Head(a) * k + carry
         IN  <<s % BigBase>> \o BigMulSmallC(Tail(a), k, s \div BigBase)

\* a * k for a limb k (0 <= k < BigBase)
BigMulSmall(a, k) == IF k = 0 THEN <<>> ELSE BigMulSmallC(a, k, 0)

RECURSIVE BigMul(_, _)
BigMul(a, b) ==
    IF a = <<>> \/ b = <<>>
    THEN <<>>
    ELSE LET rest == BigMul(a, Tail(b))
         IN  BigAdd(BigMulSmall(a, Head(b)),
                    IF rest = <<>> THEN <<>> ELSE <<0>> \o rest)

RECURSIVE BigCmpFrom(_, _, _)
BigCmpFrom(a, b, i) ==
    IF i = 0 THEN 0
    ELSE IF a[i] < b[i] THEN -1
    ELSE IF a[i] > b[i] THEN 1
    ELSE BigCmpFrom(a, b, i - 1)

\* -1, 0, 1 as a < b, a = b, a > b
BigCmp(a, b) ==
    IF Len(a) < Len(b) THEN -1
    ELSE IF Len(a) > Len(b) THEN 1
    ELSE BigCmpFrom(a, b, Len(a))

BigLeq(a, b) == BigCmp(a, b) <= 0

BigSq(n) == LET b == BigFromNat(n) IN BigMul(b, b)

RECURSIVE BigPow10(_)
BigPow10(k) == IF k = 0 THEN <<1>> ELSE BigMulSmall(BigPow10(k - 1), 10)

Abs(x) == IF x < 0 THEN -x ELSE x
Min(a, b) == IF a < b THEN a ELSE b
Max(a, b) == IF a > b THEN a ELSE b

----------------------------------------------------------------------------
(* Floats as exact reals.  NonNegReal: [p, q] is the real sqrt(p / q), q > 0. *)
(* Value: [b, n, s] is the real b + n * s for integers b, n and a           *)
(* NonNegReal s.                                                            *)

RealOfRatio(p, q) == [p |-> p, q |-> q]

RealZero == RealOfRatio(<<>>, <<1>>)

RealIsZero(x) == x.p = <<>>

\* a / b for reals a, b with b > 0
RealDiv(a, b) == RealOfRatio(BigMul(a.p, b.q), BigMul(a.q, b.p))

\* a = b as reals
RealEq(a, b) == BigCmp(BigMul(a.p, b.q), BigMul(b.p, a.q)) = 0

\* the real k for a natural number k
RealOfNat(k) == RealOfRatio(BigSq(k), <<1>>)

\* 1e-6, the float literal of lines 106 and 109
EPSILON == RealOfRatio(<<1>>, BigPow10(12))

\* 10 ** (snr_db / 20), for snr_db a multiple of 10
Pow10Snr(snr_db) ==
    IF snr_db >= 0
    THEN RealOfRatio(BigPow10(snr_db \div 10), <<1>>)
    ELSE RealOfRatio(<<1>>, BigPow10((-snr_db) \div 10))

\* the first of h, 16 h, 256 h, ... whose square times q exceeds big
RECURSIVE SqrtUpper(_, _, _)
SqrtUpper(h, big, q) ==
    IF BigCmp(BigMul(BigSq(h), q), big) > 0 THEN h ELSE SqrtUpper(16 * h, big, q)

RECURSIVE SqrtBisect(_, _, _, _)
SqrtBisect(lo, hi, big, q) ==
    IF hi - lo <= 1 THEN lo
    ELSE LET mid == (lo + hi) \div 2
         IN  IF BigLeq(BigMul(BigSq(mid), q), big)
             THEN SqrtBisect(mid, hi, big, q)
             ELSE SqrtBisect(lo, mid, big, q)

\* floor(sqrt(big / q)): the largest f with f * f * q <= big
FloorSqrt(big, q) == SqrtBisect(0, SqrtUpper(1, big, q), big, q)

EvenOf(a, b) == IF a % 2 = 0 THEN a ELSE b

\* round(v) of Python 3 for the real v = b + n * s: the nearest integer,
\* a tie going to the even neighbour
Round(v) ==
    IF v.n = 0 THEN v.b ELSE
    LET big  == BigMul(BigSq(Abs(v.n)), v.s.p)        \* (n * s)^2 = big / q
        q    == v.s.q
        f    == FloorSqrt(big, q)                     \* floor(|n * s|)
        half == BigCmp(BigMul(BigSq(2 * f + 1), q), BigMulSmall(big, 4))
        \* half = 1: fraction of |n * s| below 1/2; 0: exactly 1/2; -1: above
    IN  IF v.n >= 0
        THEN CASE half = 1  -> v.b + f
               [] half = -1 -> v.b + f + 1
               [] OTHER     -> EvenOf(v.b + f, v.b + f + 1)
        ELSE CASE half = 1  -> v.b - f
               [] half = -1 -> v.b - f - 1
               [] OTHER     -> EvenOf(v.b - f, v.b - f - 1)

----------------------------------------------------------------------------
(* tools/bursty_noise_overlay.py: the pure helpers                          *)

INT16_MIN == -32768
INT16_MAX == 32767

\* clamp_int16 without the saturation: int(round(value))
ClampNoSaturate(value) == Round(value)

\* clamp_int16: max(-32768, min(32767, int(round(value))))
clamp_int16(value) == Max(INT16_MIN, Min(INT16_MAX, Round(value)))

RECURSIVE SumSq(_)
SumSq(samples) ==
    IF samples = <<>> THEN <<>>
    ELSE BigAdd(BigSq(Abs(Head(samples))), SumSq(Tail(samples)))

\* rms: 0.0 for an empty buffer, else sqrt(acc / len(samples))
rms(samples) ==
    IF samples = <<>>
    THEN RealZero
    ELSE RealOfRatio(SumSq(samples), BigFromNat(Len(samples)))

\* float(b) + float(n) * scale
MixValue(b, n, scale) == [b |-> b, n |-> n, s |-> scale]

\* the mixing loop stopping one sample early
MixLoopDropLast(base_samples, noise_track, scale) ==
    [i \in 1..(Min(Len(base_samples), Len(noise_track)) - 1) |->
        clamp_int16(MixValue(base_samples[i], noise_track[i], scale))]

\* the mixing loop of lines 115-117: one output sample per zip(base, noise) pair
MixLoop(base_samples, noise_track, scale) ==
    [i \in 1..Min(Len(base_samples), Len(noise_track)) |->
        clamp_int16(MixValue(base_samples[i], noise_track[i], scale))]

\* fill_from_source reading the source at the track position, not from the
\* burst's own index 0
FillFromSourceAbsolute(output, noise_source, start, end) ==
    IF noise_source = <<>> \/ noise_source[1] = <<>>
    THEN output
    ELSE LET src     == noise_source[1]
             src_len == Len(src)
         IN  [pos \in 1..Len(output) |->
                 IF start < pos /\ pos <= end
                 THEN src[((pos - 1) % src_len) + 1]
                 ELSE output[pos]]

\* fill_from_source: nothing for a None or empty source, else the source
\* tiled from its index 0 over output[start .. end-1] (0-based)
fill_from_source(output, noise_source, start, end) ==
    IF noise_source = <<>> \/ noise_source[1] = <<>>
    THEN output
    ELSE LET src     == noise_source[1]
             src_len == Len(src)
         IN  [pos \in 1..Len(output) |->
                 IF start < pos /\ pos <= end
                 THEN src[((pos - 1 - start) % src_len) + 1]
                 ELSE output[pos]]

\* the value random.gauss returns, given in halves: the real h / 2
GaussValue(h) == [b |-> 0, n |-> h, s |-> RealOfRatio(<<1>>, <<4>>)]

\* fill_white: output[start .. end-1] are set to the values
\* clamp_int16(random.gauss(0, 0.35 * 32767)) of the loop, given as samples
fill_white(output, samples, start, end) ==
    [pos \in 1..Len(output) |->
        IF start < pos /\ pos <= end THEN samples[pos - start] ELSE output[pos]]

\* round(a / d) of Python 3 for integers a >= 0, d > 0: ties to even
RoundDiv(a, d) ==
    LET q == a \div d
        r == a % d
    IN  IF 2 * r < d THEN q
        ELSE IF 2 * r > d THEN q + 1
        ELSE EvenOf(q, q + 1)

\* dur_samples as round(framerate * dur_ms / 1000)
BurstSamplesRounded(framerate, dur_ms) == RoundDiv(framerate * dur_ms, 1000)

\* dur_samples: int(framerate * dur_ms / 1000), the quotient truncated
BurstSamples(framerate, dur_ms) == (framerate * dur_ms) \div 1000

\* a start anywhere in the track, whatever the burst's length
StartChoicesAnywhere(length, dur_samples) == 0..(length - 1)

\* line 77: the values of random.randint(0, length - dur_samples)
StartChoices(length, dur_samples) == 0..(length - dur_samples)

\* no substitution: a zero RMS is kept
SubstEpsNoop(r) == r

\* the epsilon substitution of lines 105-110
SubstEps(r) == IF RealIsZero(r) THEN EPSILON ELSE r

\* the scale with the SNR taken as a power ratio, 10 ** (snr_db / 10)
ScalePowerDb(base_rms, noise_rms, snr_db) ==
    LET target_noise_rms == RealDiv(base_rms, Pow10Snr(2 * snr_db))
    IN  RealDiv(target_noise_rms, noise_rms)

\* lines 112-113: target_noise_rms = base_rms / 10 ** (snr_db / 20);
\* scale = target_noise_rms / noise_rms
Scale(base_rms, noise_rms, snr_db) ==
    LET target_noise_rms == RealDiv(base_rms, Pow10Snr(snr_db))
    IN  RealDiv(target_noise_rms, noise_rms)

\* read_pcm16_mono on a file [nchannels, sampwidth, framerate, frames]
read_pcm16_mono(f) ==
    IF f.nchannels # 1 THEN [error |-> <<"is not mono">>, framerate |-> 0, data |-> <<>>]
    ELSE IF f.sampwidth # 2 THEN [error |-> <<"is not 16-bit PCM">>, framerate |-> 0, data |-> <<>>]
    ELSE [error |-> <<>>, framerate |-> f.framerate, data |-> f.frames]

----------------------------------------------------------------------------
(* tools/evaluate_dtmf.py and tools/analyse_harmonics.py: parse_metadata.   *)
(* A Python str is a sequence of one-character strings.                     *)

StartsWith(str, prefix) ==
    /\ Len(str) >= Len(prefix)
    /\ SubSeq(str, 1, Len(prefix)) = prefix

DropPrefix(str, n) == SubSeq(str, n + 1, Len(str))

\* str.split(sep) for a non-empty sep: the pieces between the occurrences of
\* sep found from left to right; cur is the piece being read
RECURSIVE SplitFrom(_, _, _)
SplitFrom(str, sep, cur) ==
    IF str = <<>> THEN <<cur>>
    ELSE IF StartsWith(str, sep)
    THEN <<cur>> \o SplitFrom(DropPrefix(str, Len(sep)), sep, <<>>)
    ELSE SplitFrom(Tail(str), sep, Append(cur, Head(str)))

Split(str, sep) == SplitFrom(str, sep, <<>>)

\* str.replace(old, new): every occurrence of old, found from left to right
RECURSIVE Replace(_, _, _)
Replace(str, old, new) ==
    IF str = <<>> THEN <<>>
    ELSE IF StartsWith(str, old)
    THEN new \o Replace(DropPrefix(str, Len(old)), old, new)
    ELSE <<Head(str)>> \o Replace(Tail(str), old, new)

SEP == <<"_", "_">>
CODE_PREFIX == <<"c", "o", "d", "e", "_">>
SNR_PREFIX == <<"s", "n", "r", "_">>
NOISE_PREFIX == <<"n", "o", "i", "s", "e", "_">>
NOISE_ONLY == <<"n", "o", "i", "s", "e", "_", "o", "n", "l", "y">>
SILENCE == <<"s", "i", "l", "e", "n", "c", "e">>
STAR == <<"s", "t", "a", "r">>
HASH == <<"h", "a", "s", "h">>

\* evaluate_dtmf.py, CODE_REPLACEMENTS in its insertion order
CODE_REPLACEMENTS == <<<<STAR, <<"*">>>>, <<HASH, <<"#">>>>>>

\* evaluate_dtmf.normalize_code: each replacement of CODE_REPLACEMENTS in turn
RECURSIVE EvalNormalizeFrom(_, _)
EvalNormalizeFrom(code, items) ==
    IF items = <<>> THEN code
    ELSE EvalNormalizeFrom(Replace(code, Head(items)[1], Head(items)[2]),
                           Tail(items))

EvalNormalizeCode(raw) == EvalNormalizeFrom(raw, CODE_REPLACEMENTS)

\* evaluate_dtmf.parse_metadata, lines 68-76: the loop over the tokens;
\* m holds the optional code, snr and noise_type
RECURSIVE EvalTokens(_, _)
EvalTokens(tokens, m) ==
    IF tokens = <<>> THEN m
    ELSE LET token == Head(tokens)
             m2 == IF StartsWith(token, CODE_PREFIX)
                   THEN [m EXCEPT !.code =
                           <<EvalNormalizeCode(DropPrefix(token, Len(CODE_PREFIX)))>>]
                   ELSE IF StartsWith(token, SNR_PREFIX)
                   THEN [m EXCEPT !.snr = <<DropPrefix(token, Len(SNR_PREFIX))>>]
                   ELSE IF StartsWith(token, NOISE_PREFIX)
                   THEN [m EXCEPT !.noise_type =
                           <<DropPrefix(token, Len(NOISE_PREFIX))>>]
                   ELSE IF token = NOISE_ONLY \/ StartsWith(token, SILENCE)
                   THEN [m EXCEPT !.code = <<<<>>>>]
                   ELSE m
         IN  EvalTokens(Tail(tokens), m2)

\* evaluate_dtmf.parse_metadata: the SampleMetadata of a stem (without path)
EvalParseMetadata(path_stem) ==
    LET tokens == Split(path_stem, SEP)
        m == EvalTokens(tokens, [code |-> <<>>, snr |-> <<>>, noise_type |-> <<>>])
    IN  [condition  |-> IF tokens # <<>> THEN tokens[1] ELSE <<>>,
         code       |-> IF m.code = <<>> THEN <<>> ELSE m.code[1],
         snr        |-> m.snr,
         noise_type |-> m.noise_type]

\* analyse_harmonics.normalize_code
HarmNormalizeCode(token) == Replace(Replace(token, STAR, <<"*">>), HASH, <<"#">>)

\* analyse_harmonics.parse_metadata, lines 31-35: the loop over the tokens
RECURSIVE HarmTokens(_, _)
HarmTokens(tokens, code) ==
    IF tokens = <<>> THEN code
    ELSE LET token == Head(tokens)
             code2 == IF StartsWith(token, CODE_PREFIX)
                      THEN HarmNormalizeCode(DropPrefix(token, Len(CODE_PREFIX)))
                      ELSE IF token = NOISE_ONLY \/ StartsWith(token, SILENCE)
                      THEN <<>>
                      ELSE code
         IN  HarmTokens(Tail(tokens), code2)

\* analyse_harmonics.parse_metadata
HarmParseMetadata(path_stem) ==
    [code |-> HarmTokens(Split(path_stem, SEP), <<>>), stem |-> path_stem]


----------------------------------------------------------------------------
(* Bounds of the model and the sets the inputs are drawn from               *)

MaxLen == 2          \* longest base buffer, in samples
MaxTrackLen == 3     \* longest track of a direct build_noise_track call
DurParts == 8        \* the 200..400 ms range is drawn at DurParts + 1 points
MaxTokens == 2       \* most tokens of a file stem

BURSTS_MIN == 2
BURSTS_MAX == 4
DUR_MIN_MS == 200
DUR_MAX_MS == 400

RECURSIVE SeqsUpTo(_, _)
SeqsUpTo(S, n) ==
    IF n = 0 THEN {<<>>}
    ELSE LET shorter == SeqsUpTo(S, n - 1)
         IN  shorter \cup {Append(q, x) : q \in {r \in shorter : Len(r) = n - 1}, x \in S}

BaseVals == {0, 1000, INT16_MAX}
BaseRates == {8}
NoiseRates == {4, 8}
TrackRates == {4, 5, 8}
SnrValues == {-20, 0, 20}
GaussDraws == {-80001, 3, 70000}
\* what clamp_int16(random.gauss(0, 0.35 * 32767)) gives for those draws
WhiteSamples == {clamp_int16(GaussValue(h)) : h \in GaussDraws}
NoiseSources == {<<>>, <<500>>, <<500, -500>>}
TrackSources == {<<>>, <<11>>, <<11, 22>>, <<11, 22, 33>>}

\* the durations random.randint(200, 400) is drawn at
DurMsDraws ==
    {DUR_MIN_MS + ((DUR_MAX_MS - DUR_MIN_MS) * k) \div DurParts : k \in 0..DurParts}

WavFile(ch, sw, fr, frames) ==
    [nchannels |-> ch, sampwidth |-> sw, framerate |-> fr, frames |-> frames]

BadFiles == {WavFile(2, 2, 8, <<>>), WavFile(1, 1, 8, <<>>)}
BaseFiles ==
    {WavFile(1, 2, fr, b) : fr \in BaseRates, b \in SeqsUpTo(BaseVals, MaxLen)}
        \cup BadFiles
NoiseFiles ==
    {WavFile(1, 2, fr, b) : fr \in NoiseRates, b \in NoiseSources} \cup BadFiles

Zeros(n) == [i \in 1..n |-> 0]

\* the tokens file stems are built from
TokenChoices ==
    { CODE_PREFIX \o <<"5">>,
      CODE_PREFIX \o STAR,
      CODE_PREFIX \o <<"1">> \o HASH,
      SNR_PREFIX \o <<"1", "0">>,
      NOISE_PREFIX \o <<"w", "h", "i", "t", "e">>,
      NOISE_ONLY,
      SILENCE,
      SILENCE \o <<"_", "2", "s">>,
      <<"c", "l", "e", "a", "n">> }

RECURSIVE Join(_, _)
Join(tokens, sep) ==
    IF tokens = <<>> THEN <<>>
    ELSE IF Len(tokens) = 1 THEN tokens[1]
    ELSE tokens[1] \o sep \o Join(Tail(tokens), sep)

Stems == {Join(ts, SEP) : ts \in SeqsUpTo(TokenChoices, MaxTokens)}

----------------------------------------------------------------------------
(* State.  An optional value (None, or not yet assigned) is <<>>, a value   *)
(* x that is present is <<x>>.                                              *)

VARIABLES
    pc,            \* where the run is
    snr_db,        \* argument of mix_bursty_noise
    noise_mode,    \* argument: "white" or "atc"
    noise_path,    \* argument: <<>> (None) or <<path>>
    framerate,     \* local of mix_bursty_noise (optional)
    base_samples,  \* local (optional)
    noise_rate,    \* local (optional)
    noise_source,  \* local: <<>> is None, <<array>> an array
    noise_track,   \* local (optional)
    base_rms,      \* local (optional)
    noise_rms,     \* local (optional)
    scale,         \* local (optional)
    mixed,         \* local (optional)
    stderr,        \* the warnings printed, in order
    error,         \* the exception that ended the run (optional)
    out_dir,       \* whether out_path.parent.mkdir has run
    out_file,      \* the file at out_path (optional)
    length,        \* parameter of build_noise_track
    rate,          \* parameter framerate of build_noise_track
    mode,          \* parameter of build_noise_track
    source,        \* parameter noise_source of build_noise_track
    bursts,        \* iterations of the burst loop still to run
    output,        \* local of build_noise_track
    log_bursts,    \* whether the history variables below are kept
    burst,         \* history: the last iteration's draw (optional)
    last_start,    \* history: per index, start of the last burst over it, or -1
    tally,         \* history: the count drawn, iterations run, windows placed
    bnt_calls,     \* history: number of calls of build_noise_track
    stem,          \* parse_metadata: the file stem, a sequence of characters
    eval_meta,     \* evaluate_dtmf.parse_metadata's result (optional)
    harm_meta      \* analyse_harmonics.parse_metadata's result (optional)

mixVars ==
    <<snr_db, noise_mode, noise_path, framerate, base_samples, noise_rate,
      noise_source, noise_track, base_rms, noise_rms, scale, mixed, stderr,
      error, out_dir, out_file>>
bntVars ==
    <<length, rate, mode, source, bursts, output, log_bursts, burst,
      last_start, tally, bnt_calls>>
parseVars == <<stem, eval_meta, harm_meta>>
vars == <<pc, mixVars, bntVars, parseVars>>

MixIdle ==
    /\ framerate = <<>> /\ base_samples = <<>> /\ noise_rate = <<>>
    /\ noise_source = <<>> /\ noise_track = <<>> /\ base_rms = <<>>
    /\ noise_rms = <<>> /\ scale = <<>> /\ mixed = <<>> /\ stderr = <<>>
    /\ error = <<>> /\ out_dir = FALSE /\ out_file = <<>>
BntIdle ==
    /\ length = 0 /\ rate = 0 /\ mode = "" /\ source = <<>> /\ bursts = 0
    /\ output = <<>> /\ burst = <<>> /\ last_start = <<>> /\ bnt_calls = 0
    /\ tally = <<>>
ParseIdle == stem = <<>> /\ eval_meta = <<>> /\ harm_meta = <<>>

----------------------------------------------------------------------------
(* mix_bursty_noise                                                         *)

Raise(msg) ==
    /\ error' = <<msg>>
    /\ pc' = "failed"

\* ReadBase with the output directory made before the base is validated
ReadBaseMkdirFirst ==
    /\ pc = "read_base"
    /\ out_dir' = TRUE
    /\ \E f \in BaseFiles :
         LET r == read_pcm16_mono(f)
         IN  IF r.error # <<>>
             THEN /\ Raise(r.error[1])
                  /\ UNCHANGED <<framerate, base_samples>>
             ELSE /\ framerate' = <<r.framerate>>
                  /\ base_samples' = <<r.data>>
                  /\ pc' = "load_noise"
                  /\ UNCHANGED error
    /\ UNCHANGED <<snr_db, noise_mode, noise_path, noise_rate, noise_source,
                   noise_track, base_rms, noise_rms, scale, mixed, stderr,
                   out_file, bntVars, parseVars>>

\* line 90: framerate, base_samples = read_pcm16_mono(base_path)
ReadBase ==
    /\ pc = "read_base"
    /\ \E f \in BaseFiles :
         LET r == read_pcm16_mono(f)
         IN  IF r.error # <<>>
             THEN /\ Raise(r.error[1])
                  /\ UNCHANGED <<framerate, base_samples>>
             ELSE /\ framerate' = <<r.framerate>>
                  /\ base_samples' = <<r.data>>
                  /\ pc' = "load_noise"
                  /\ UNCHANGED error
    /\ UNCHANGED <<snr_db, noise_mode, noise_path, noise_rate, noise_source,
                   noise_track, base_rms, noise_rms, scale, mixed, stderr,
                   out_dir, out_file, bntVars, parseVars>>

\* LoadNoise without the sample-rate comparison of lines 96-99
LoadNoiseNoRateCheck ==
    /\ pc = "load_noise"
    /\ IF noise_mode # "white"
       THEN IF noise_path = <<>>
            THEN /\ Raise("noise_path is required for non-white noise")
                 /\ UNCHANGED <<noise_rate, noise_source>>
            ELSE \E f \in NoiseFiles :
                   LET r == read_pcm16_mono(f)
                   IN  IF r.error # <<>>
                       THEN /\ Raise(r.error[1])
                            /\ UNCHANGED <<noise_rate, noise_source>>
                       ELSE /\ noise_rate' = <<r.framerate>>
                            /\ noise_source' = <<r.data>>
                            /\ pc' = "call_build"
                            /\ UNCHANGED error
       ELSE /\ pc' = "call_build"
            /\ UNCHANGED <<noise_rate, noise_source, error>>
    /\ UNCHANGED <<snr_db, noise_mode, noise_path, framerate, base_samples,
                   noise_track, base_rms, noise_rms, scale, mixed, stderr,
                   out_dir, out_file, bntVars, parseVars>>

\* lines 91-99: the noise source of a non-white mode is loaded and checked
LoadNoise ==
    /\ pc = "load_noise"
    /\ IF noise_mode # "white"
       THEN IF noise_path = <<>>
            THEN /\ Raise("noise_path is required for non-white noise")
                 /\ UNCHANGED <<noise_rate, noise_source>>
            ELSE \E f \in NoiseFiles :
                   LET r == read_pcm16_mono(f)
                   IN  IF r.error # <<>>
                       THEN /\ Raise(r.error[1])
                            /\ UNCHANGED <<noise_rate, noise_source>>
                       ELSE /\ noise_rate' = <<r.framerate>>
                            /\ noise_source' = <<r.data>>
                            /\ IF r.framerate # framerate[1]
                               THEN Raise("Sample rate mismatch")
                               ELSE pc' = "call_build" /\ UNCHANGED error
       ELSE /\ pc' = "call_build"
            /\ UNCHANGED <<noise_rate, noise_source, error>>
    /\ UNCHANGED <<snr_db, noise_mode, noise_path, framerate, base_samples,
                   noise_track, base_rms, noise_rms, scale, mixed, stderr,
                   out_dir, out_file, bntVars, parseVars>>

\* line 101: the call build_noise_track(len(base_samples), framerate,
\* noise_mode, noise_source)
CallBuild ==
    /\ pc = "call_build"
    /\ length' = Len(base_samples[1])
    /\ rate' = framerate[1]
    /\ mode' = noise_mode
    /\ source' = noise_source
    /\ bnt_calls' = bnt_calls + 1
    /\ pc' = "bnt_entry"
    /\ UNCHANGED <<mixVars, bursts, output, log_bursts, burst, last_start,
                   tally, parseVars>>

----------------------------------------------------------------------------
(* build_noise_track                                                        *)

\* history of the loop: the value of line 56, the iterations run so far and
\* how many of them reached the fill of lines 79-82
Tally(drawn, iterations, placed) ==
    IF log_bursts
    THEN <<[drawn |-> drawn, iterations |-> iterations, placed |-> placed]>>
    ELSE <<>>

\* the tally after one more iteration, placed or skipped
Bump(placed) ==
    IF log_bursts
    THEN Tally(tally[1].drawn, tally[1].iterations + 1,
               tally[1].placed + (IF placed THEN 1 ELSE 0))
    ELSE <<>>

\* the burst count drawn from 1..4: random.randint(1, 4)
BuildEntryFromOne ==
    /\ pc = "bnt_entry"
    /\ \E k \in 1..BURSTS_MAX :
         /\ bursts' = k
         /\ tally' = Tally(k, 0, 0)
    /\ output' = Zeros(length)
    /\ last_start' = IF log_bursts THEN [i \in 1..length |-> -1] ELSE <<>>
    /\ pc' = "bnt_loop"
    /\ UNCHANGED <<mixVars, length, rate, mode, source, log_bursts, burst,
                   bnt_calls, parseVars>>

\* lines 56-57: bursts = random.randint(2, 4); output = array("h", [0] * length)
BuildEntry ==
    /\ pc = "bnt_entry"
    /\ \E k \in BURSTS_MIN..BURSTS_MAX :
         /\ bursts' = k
         /\ tally' = Tally(k, 0, 0)
    /\ output' = Zeros(length)
    /\ last_start' = IF log_bursts THEN [i \in 1..length |-> -1] ELSE <<>>
    /\ pc' = "bnt_loop"
    /\ UNCHANGED <<mixVars, length, rate, mode, source, log_bursts, burst,
                   bnt_calls, parseVars>>

Logged(dur_ms, dur_samples, placed, start, end) ==
    IF log_bursts
    THEN <<[dur_ms |-> dur_ms, dur_samples |-> dur_samples, placed |-> placed,
            start |-> start, end |-> end,
            \* whether the burst covers an index an earlier burst covered
            overlapped |-> placed /\ \E i \in DOMAIN last_start :
                              start < i /\ i <= end /\ last_start[i] # -1]>>
    ELSE <<>>

\* lines 72-82: one iteration of the burst loop
BurstIter ==
    /\ pc = "bnt_loop"
    /\ bursts > 0
    /\ bursts' = bursts - 1
    /\ \E dur_ms \in DurMsDraws :
         LET dur_samples == BurstSamples(rate, dur_ms)
         IN  IF dur_samples <= 0 \/ dur_samples >= length
             THEN /\ burst' = Logged(dur_ms, dur_samples, FALSE, 0, 0)
                  /\ tally' = Bump(FALSE)
                  /\ UNCHANGED <<output, last_start>>
             ELSE \E start \in StartChoices(length, dur_samples) :
                    LET end == start + dur_samples
                    IN  /\ burst' = Logged(dur_ms, dur_samples, TRUE, start, end)
                        /\ tally' = Bump(TRUE)
                        /\ last_start' =
                             IF log_bursts
                             THEN [i \in 1..length |->
                                     IF start < i /\ i <= end
                                     THEN start ELSE last_start[i]]
                             ELSE <<>>
                        /\ IF mode = "white"
                           THEN \E samples \in [1..dur_samples -> WhiteSamples] :
                                  output' = fill_white(output, samples, start, end)
                           ELSE output' =
                                  fill_from_source(output, source, start, end)
    /\ UNCHANGED <<pc, mixVars, length, rate, mode, source, log_bursts,
                   bnt_calls, parseVars>>

\* line 84: return output
BuildReturn ==
    /\ pc = "bnt_loop"
    /\ bursts = 0
    /\ noise_track' = <<output>>
    /\ output' = <<>>
    /\ pc' = "bnt_returned"
    /\ UNCHANGED <<snr_db, noise_mode, noise_path, framerate, base_samples,
                   noise_rate, noise_source, base_rms, noise_rms, scale,
                   mixed, stderr, error, out_dir, out_file, length, rate,
                   mode, source, bursts, log_bursts, burst, last_start,
                   tally, bnt_calls, parseVars>>

----------------------------------------------------------------------------
(* mix_bursty_noise, after the noise track is built                         *)

Warnings(b_rms, n_rms) ==
    (IF RealIsZero(b_rms)
     THEN <<"Warning: base is silent; using epsilon to continue">> ELSE <<>>)
    \o (IF RealIsZero(n_rms)
        THEN <<"Warning: noise track is silent; using epsilon to continue">>
        ELSE <<>>)

\* lines 103-113: the two RMS values, the epsilon substitution with its
\* warnings, and the scale
Calibrate ==
    /\ pc = "bnt_returned"
    /\ base_samples # <<>>
    /\ LET b_rms == rms(base_samples[1])
           n_rms == rms(noise_track[1])
       IN  /\ base_rms' = <<SubstEps(b_rms)>>
           /\ noise_rms' = <<SubstEps(n_rms)>>
           /\ stderr' = stderr \o Warnings(b_rms, n_rms)
           /\ scale' = <<Scale(SubstEps(b_rms), SubstEps(n_rms), snr_db)>>
    /\ pc' = "mix"
    /\ UNCHANGED <<snr_db, noise_mode, noise_path, framerate, base_samples,
                   noise_rate, noise_source, noise_track, mixed, error,
                   out_dir, out_file, bntVars, parseVars>>

\* lines 115-117: the mixing loop
Mix ==
    /\ pc = "mix"
    /\ mixed' = <<MixLoop(base_samples[1], noise_track[1], scale[1])>>
    /\ pc' = "write"
    /\ UNCHANGED <<snr_db, noise_mode, noise_path, framerate, base_samples,
                   noise_rate, noise_source, noise_track, base_rms, noise_rms,
                   scale, stderr, error, out_dir, out_file, bntVars,
                   parseVars>>

\* lines 119-120: out_path.parent.mkdir(...); write_pcm16_mono(out_path, ...)
Write ==
    /\ pc = "write"
    /\ out_dir' = TRUE
    /\ out_file' = <<WavFile(1, 2, framerate[1], mixed[1])>>
    /\ pc' = "done"
    /\ UNCHANGED <<snr_db, noise_mode, noise_path, framerate, base_samples,
                   noise_rate, noise_source, noise_track, base_rms, noise_rms,
                   scale, mixed, stderr, error, bntVars, parseVars>>

----------------------------------------------------------------------------
(* Specifications                                                           *)

\* a call mix_bursty_noise(base_path, out_path, snr_db, noise_mode, noise_path)
Init ==
    /\ pc = "read_base"
    /\ snr_db \in SnrValues
    /\ noise_mode \in {"white", "atc"}
    /\ noise_path \in {<<>>, <<"noise.wav">>}
    /\ MixIdle
    /\ BntIdle
    /\ log_bursts = FALSE
    /\ ParseIdle

Next ==
    \/ ReadBase
    \/ LoadNoise
    \/ CallBuild
    \/ BuildEntry
    \/ BurstIter
    \/ BuildReturn
    \/ Calibrate
    \/ Mix
    \/ Write

Spec == Init /\ [][Next]_vars

\* a call build_noise_track(length, framerate, mode, noise_source) on its own
InitTrack ==
    /\ pc = "bnt_entry"
    /\ snr_db = 0 /\ noise_mode = "" /\ noise_path = <<>>
    /\ MixIdle
    /\ length \in 0..MaxTrackLen
    /\ rate \in TrackRates
    /\ \/ mode = "white" /\ source = <<>>
       \/ mode = "atc" /\ source \in {<<>>} \cup {<<src>> : src \in TrackSources}
    /\ bursts = 0 /\ output = <<>> /\ burst = <<>> /\ last_start = <<>>
    /\ tally = <<>>
    /\ bnt_calls = 1
    /\ log_bursts = TRUE
    /\ ParseIdle

NextTrack ==
    \/ BuildEntry
    \/ BurstIter
    \/ BuildReturn

SpecTrack == InitTrack /\ [][NextTrack]_vars

----------------------------------------------------------------------------
(* parse_metadata of the harness and of the reporter on the same stem       *)

\* evaluate_dtmf.parse_metadata(path)
EvalParse ==
    /\ pc = "parse"
    /\ eval_meta = <<>>
    /\ eval_meta' = <<EvalParseMetadata(stem)>>
    /\ UNCHANGED <<pc, mixVars, bntVars, stem, harm_meta>>

\* analyse_harmonics.parse_metadata(path)
HarmParse ==
    /\ pc = "parse"
    /\ harm_meta = <<>>
    /\ harm_meta' = <<HarmParseMetadata(stem)>>
    /\ UNCHANGED <<pc, mixVars, bntVars, stem, eval_meta>>

InitParse ==
    /\ pc = "parse"
    /\ snr_db = 0 /\ noise_mode = "" /\ noise_path = <<>>
    /\ MixIdle
    /\ BntIdle
    /\ log_bursts = FALSE
    /\ stem \in Stems
    /\ eval_meta = <<>> /\ harm_meta = <<>>

NextParse ==
    \/ EvalParse
    \/ HarmParse

SpecParse == InitParse /\ [][NextParse]_vars

----------------------------------------------------------------------------
(* Properties                                                               *)

InInt16(x) == INT16_MIN <= x /\ x <= INT16_MAX

AllZero(samples) == \A i \in DOMAIN samples : samples[i] = 0

RealMul(a, b) == RealOfRatio(BigMul(a.p, b.p), BigMul(a.q, b.q))

\* r is the root of the mean of the squares of a non-empty buffer
IsRootMeanSquare(r, samples) ==
    BigCmp(BigMul(r.p, BigFromNat(Len(samples))), BigMul(SumSq(samples), r.q)) = 0

Printed(msg) == \E k \in DOMAIN stderr : stderr[k] = msg

ConfigErrors ==
    {"noise_path is required for non-white noise", "Sample rate mismatch"}

\* C1: whenever mix_bursty_noise gets that far, the noise track built by
\* build_noise_track has len(base) samples, the mixing loop emits one sample
\* per base sample, and the buffer written to the output has exactly as many
\* samples as the base buffer (the empty base included).
C1_LengthInvariant ==
    /\ (noise_track # <<>> /\ base_samples # <<>>)
           => Len(noise_track[1]) = Len(base_samples[1])
    /\ mixed # <<>> => Len(mixed[1]) = Len(base_samples[1])
    /\ pc = "done" => (/\ out_file # <<>>
                       /\ Len(out_file[1].frames) = Len(base_samples[1]))

C1_Witness ==
    /\ pc = "done"
    /\ Len(base_samples[1]) = MaxLen
    /\ Len(out_file[1].frames) = MaxLen
    /\ ~AllZero(noise_track[1])

\* C2: every sample the mixing loop emits is an integer in [-32768, 32767]
\* and is round(base[i] + noise_track[i] * scale) saturated to that range:
\* -32768 when the rounded value is below it, 32767 when it is above, the
\* rounded value itself otherwise.  Every sample of the noise track in white
\* mode is in the same range.
C2_RangeInvariant ==
    /\ mixed # <<>> => \A i \in DOMAIN mixed[1] : InInt16(mixed[1][i])
    /\ pc = "write" =>
         \A i \in DOMAIN mixed[1] :
            LET r == Round(MixValue(base_samples[1][i], noise_track[1][i], scale[1]))
            IN  mixed[1][i] = IF r < -32768 THEN -32768
                              ELSE IF r > 32767 THEN 32767
                              ELSE r
    /\ mode = "white" => \A i \in DOMAIN output : InInt16(output[i])
    /\ (mode = "white" /\ noise_track # <<>>)
           => \A i \in DOMAIN noise_track[1] : InInt16(noise_track[1][i])

C2_Witness ==
    /\ pc = "write"
    /\ \E i \in DOMAIN mixed[1] :
          /\ Round(MixValue(base_samples[1][i], noise_track[1][i], scale[1])) > 32767
          /\ mixed[1][i] = 32767
    /\ \E i \in DOMAIN mixed[1] :
          /\ Round(MixValue(base_samples[1][i], noise_track[1][i], scale[1])) < -32768
          /\ mixed[1][i] = -32768

\* C3: the scale times the noise RMS times 10^(snr_db/20) is the base RMS,
\* where each RMS is the root mean square of the whole buffer, or 1e-6 when
\* that is exactly zero; for a base of constant magnitude 1000, a noise track
\* of constant magnitude 500 and snr_db = 0 the scale is 2.
C3_ScaleCorrect ==
    scale # <<>> =>
        LET b == base_samples[1]
            n == noise_track[1]
        IN  /\ IF AllZero(b) THEN RealEq(base_rms[1], EPSILON)
                             ELSE IsRootMeanSquare(base_rms[1], b)
            /\ IF AllZero(n) THEN RealEq(noise_rms[1], EPSILON)
                             ELSE IsRootMeanSquare(noise_rms[1], n)
            /\ RealEq(RealMul(RealMul(scale[1], noise_rms[1]), Pow10Snr(snr_db)),
                      base_rms[1])
            /\ (/\ b # <<>>
                /\ \A i \in DOMAIN b : Abs(b[i]) = 1000
                /\ \A i \in DOMAIN n : Abs(n[i]) = 500
                /\ snr_db = 0)
                   => RealEq(scale[1], RealOfNat(2))

C3_Witness ==
    /\ scale # <<>>
    /\ base_samples[1] # <<>>
    /\ \A i \in DOMAIN base_samples[1] : base_samples[1][i] = 1000
    /\ \A i \in DOMAIN noise_track[1] : Abs(noise_track[1][i]) = 500
    /\ snr_db = 0
    /\ RealEq(scale[1], RealOfNat(2))

\* C4: in a recorded-source mode, once the base is loaded and the noise
\* source has been dealt with, a missing noise path or a noise sample rate
\* that differs from the base's has ended the run with a configuration error
\* and build_noise_track was never called: no track, no mix, nothing written.
C4_ConfigErrorBeforeSynthesis ==
    (/\ noise_mode # "white"
     /\ framerate # <<>>
     /\ pc # "load_noise"
     /\ \/ noise_path = <<>>
        \/ (noise_rate # <<>> /\ noise_rate # framerate))
    => /\ pc = "failed"
       /\ error # <<>>
       /\ error[1] \in ConfigErrors
       /\ bnt_calls = 0
       /\ noise_track = <<>>
       /\ mixed = <<>>
       /\ out_file = <<>>
       /\ ~out_dir

C4_Witness ==
    /\ pc = "failed"
    /\ error = <<"Sample rate mismatch">>
    /\ noise_rate # framerate
    /\ bnt_calls = 0

\* C5: a run that ended in a failure has written nothing at out_path and has
\* not made its parent directories; the directories and the file exist only
\* in a run that completed, and the file holds the full mixed buffer.
C5_NoOutputOnFailure ==
    /\ pc = "failed" => (out_file = <<>> /\ ~out_dir)
    /\ (out_file # <<>> \/ out_dir)
           => (/\ pc = "done"
               /\ error = <<>>
               /\ mixed # <<>>
               /\ out_file = <<WavFile(1, 2, framerate[1], mixed[1])>>)

C5_Witness ==
    /\ pc = "failed"
    /\ error # <<>>
    /\ error[1] \in {"is not mono", "is not 16-bit PCM"}
    /\ out_file = <<>>

\* C6: every iteration of the burst loop draws a duration in 200..400 ms; it
\* skips the burst exactly when the sample duration is <= 0 or >= the track
\* length, and otherwise fills [start, end) with
\* 0 <= start <= length - duration, end = start + duration, start < end and
\* end <= length; the track keeps its length.
C6_BurstBounds ==
    /\ pc = "bnt_loop" => Len(output) = length
    /\ burst # <<>> =>
         LET b == burst[1]
         IN  /\ b.dur_ms \in 200..400
             /\ b.placed <=> ~(b.dur_samples <= 0 \/ b.dur_samples >= length)
             /\ b.placed => /\ 0 <= b.start
                            /\ b.start <= length - b.dur_samples
                            /\ b.end = b.start + b.dur_samples
                            /\ b.start < b.end
                            /\ b.end <= length

C6_Witness ==
    /\ burst # <<>>
    /\ burst[1].placed
    /\ burst[1].start > 0
    /\ burst[1].end = length
    /\ burst[1].dur_samples > 1

\* C7: after the calibration, a buffer whose RMS is exactly zero has its RMS
\* replaced by 1e-6 and its warning printed, a buffer whose RMS is not zero
\* keeps its RMS and prints no warning; a run that printed a warning has not
\* failed: its scale is computed without a division by zero, it goes on to
\* the mixing loop and the write, and ends with the output stored.
C7_SilenceEpsilon ==
    /\ base_rms # <<>> =>
         LET b == base_samples[1]
             n == noise_track[1]
         IN  /\ AllZero(b) =>
                   /\ RealEq(base_rms[1], EPSILON)
                   /\ Printed("Warning: base is silent; using epsilon to continue")
             /\ ~AllZero(b) =>
                   /\ IsRootMeanSquare(base_rms[1], b)
                   /\ ~Printed("Warning: base is silent; using epsilon to continue")
             /\ AllZero(n) =>
                   /\ RealEq(noise_rms[1], EPSILON)
                   /\ Printed("Warning: noise track is silent; using epsilon to continue")
             /\ ~AllZero(n) =>
                   /\ IsRootMeanSquare(noise_rms[1], n)
                   /\ ~Printed("Warning: noise track is silent; using epsilon to continue")
             /\ Len(stderr) = (IF AllZero(b) THEN 1 ELSE 0) + (IF AllZero(n) THEN 1 ELSE 0)
    /\ stderr # <<>> =>
         /\ pc \in {"mix", "write", "done"}
         /\ error = <<>>
         /\ scale # <<>>
         /\ scale[1].q # <<>>          \* no division by zero in lines 112-113
         /\ pc \in {"write", "done"} => mixed # <<>>
         /\ pc = "write" => ENABLED Write
         /\ pc = "done" => out_file = <<WavFile(1, 2, framerate[1], mixed[1])>>

C7_Witness ==
    /\ pc = "done"
    /\ Len(stderr) = 2
    /\ base_samples[1] # <<>>
    /\ out_file # <<>>

\* C8: parse_metadata of evaluate_dtmf.py and parse_metadata of
\* analyse_harmonics.py derive the same expected code from every file stem.
C8_SameExpectedCode ==
    (eval_meta # <<>> /\ harm_meta # <<>>)
        => eval_meta[1].code = harm_meta[1].code

\* C9 (as claimed): the burst length in samples is
\* round(sample_rate * duration_ms / 1000), the nearest integer.
C9_RoundedDuration ==
    burst # <<>> => burst[1].dur_samples = RoundDiv(rate * burst[1].dur_ms, 1000)

\* C9 (amended): the burst length in samples is the exact quotient
\* sample_rate * duration_ms / 1000 truncated: the largest integer not
\* above it, not the nearest one.
C9_TruncatedDuration ==
    burst # <<>> =>
        /\ 1000 * burst[1].dur_samples <= rate * burst[1].dur_ms
        /\ rate * burst[1].dur_ms < 1000 * (burst[1].dur_samples + 1)

C9_Witness ==
    /\ burst # <<>>
    /\ (rate * burst[1].dur_ms) % 1000 > 500
    /\ burst[1].placed

\* C10: in recorded-source mode, while and after build_noise_track places
\* its bursts, the track holds source[(i - start_k) mod L] at every index i
\* some placed burst covers, start_k being the start of the last placed burst
\* that covers i, and 0 at every other index; with an empty or absent source
\* the whole track is 0.
C10_TiledLastWriteWins ==
    (mode = "atc" /\ pc \in {"bnt_loop", "bnt_returned"} /\ log_bursts) =>
        LET track == IF pc = "bnt_loop" THEN output ELSE noise_track[1]
        IN  /\ Len(track) = length
            /\ \A i \in 1..length :
                  track[i] =
                     IF source = <<>> \/ source[1] = <<>> \/ last_start[i] = -1
                     THEN 0
                     ELSE source[1][((i - 1 - last_start[i]) % Len(source[1])) + 1]

C10_Witness ==
    /\ mode = "atc"
    /\ pc = "bnt_returned"
    /\ source # <<>>
    /\ Len(source[1]) = 2
    /\ burst # <<>>
    /\ burst[1].overlapped
    /\ burst[1].start = 1
    /\ \E i \in 1..length : last_start[i] = 0
    /\ \E i \in 1..length : last_start[i] = -1

\* C11 (as claimed): for every track length and sample rate, the track that
\* build_noise_track returns has between 2 and 4 burst windows filled: as
\* many as the burst count drawn from {2, 3, 4}.
C11_AllBurstsWritten ==
    (pc = "bnt_returned" /\ log_bursts) =>
        /\ tally[1].drawn \in 2..4
        /\ tally[1].placed = tally[1].drawn

\* C11 (amended): the burst count is drawn from {2, 3, 4} and the loop runs
\* that many iterations, but only the iterations that are not skipped place
\* a window: the returned track has between 0 and the drawn count of
\* windows, all of them when every duration of 200..400 ms gives 1 to
\* length - 1 samples, none (an all-zero track) when every duration gives 0
\* samples or at least the track's length.
C11_BurstsWrittenUnlessSkipped ==
    (pc \in {"bnt_loop", "bnt_returned"} /\ log_bursts) =>
        LET t     == tally[1]
            track == IF pc = "bnt_loop" THEN output ELSE noise_track[1]
        IN  /\ t.drawn \in 2..4
            /\ t.iterations + bursts = t.drawn
            /\ pc = "bnt_returned" => t.iterations = t.drawn
            /\ 0 <= t.placed /\ t.placed <= t.iterations
            /\ (rate * DUR_MIN_MS >= 1000 /\ rate * DUR_MAX_MS < 1000 * length)
                  => t.placed = t.iterations
            /\ (rate * DUR_MAX_MS < 1000 \/ rate * DUR_MIN_MS >= 1000 * length)
                  => t.placed = 0
            /\ t.placed = 0 <=> \A i \in 1..length : last_start[i] = -1
            /\ t.placed = 0 => AllZero(track)

\* a returned track with fewer windows than the count drawn, and one with all
C11_Witness ==
    /\ pc = "bnt_returned"
    /\ tally[1].drawn = 4
    /\ tally[1].placed = 1
    /\ ~AllZero(noise_track[1])

C11_WitnessAll ==
    /\ pc = "bnt_returned"
    /\ tally[1].drawn = 3
    /\ tally[1].placed = 3

C11_WitnessNone ==
    /\ pc = "bnt_returned"
    /\ length > 0
    /\ tally[1].placed = 0

====
